---- MODULE Spec2Model ----
(***************************************************************************)
(* Model of Desktoptovr.py: the credential file, the start-up sequence of  *)
(* main(), the LoginDialog handler on_login, and the MainWindow location   *)
(* poller (update_instance, FetchInstanceThread.run, on_instance_fetched,  *)
(* the 10 s single-shot retry timer) up to the end of app.exec().          *)
(***************************************************************************)
EXTENDS Naturals, Sequences, FiniteSets, TLC

\* ------------------------------------------------------------------ bounds
\* Most fetch threads + queued fetched signals + pending retry timers that
\* the user's clicks on "Get Current Instance" may pile up.
MaxPending == 2

\* ------------------------------------------------------------------ values
PyNone == "<None>"            \* Python's None
NoKey == "<no key>"           \* a key that the JSON object does not hold

\* COOKIE_FILE: missing, not a JSON object, or a JSON object with its keys.
Absent == [state |-> "absent", auth |-> NoKey, user_id |-> NoKey]
Malformed == [state |-> "malformed", auth |-> NoKey, user_id |-> NoKey]

Tokens == {"authA", "authB"}
UserIds == {"usr_1"}
Locations == {"wrld_1", "wrld_2"}

Fetching == "Fetching instance..."
Ready == "Ready!"
NotReady == "Not Ready!"

\* Python truthiness of an Optional[str]: None and "" are falsy.
Falsy(v) == v = PyNone \/ v = ""

\* ---------------------------------------------------------- credential file
\* save_cookie that writes the "auth" key only.
save_cookie_ForgetsUserId(auth_cookie, uid) ==
    [state |-> "json", auth |-> auth_cookie, user_id |-> NoKey]

\* save_cookie: the file becomes {"auth": auth_cookie} plus "user_id" when
\* user_id is truthy.
save_cookie(auth_cookie, uid) ==
    [state |-> "json", auth |-> auth_cookie,
     user_id |-> IF Falsy(uid) THEN NoKey ELSE uid]

\* dict.get: the value, None for a missing key.
DictGet(v) == IF v = NoKey THEN PyNone ELSE v

\* load_cookie on a readable JSON object or a missing file (json.load raises
\* on a malformed one, see MainStart).
load_cookie(f) ==
    IF f = Absent THEN <<PyNone, PyNone>>
    ELSE <<DictGet(f.auth), DictGet(f.user_id)>>

\* The credential files a run may find: none, one that is not a JSON object,
\* or an object with or without each key.
InitialFiles ==
    {Absent, Malformed}
        \cup [state : {"json"}, auth : Tokens \cup {NoKey}, user_id : UserIds \cup {NoKey}]

VARIABLES
    pc,         \* main(): "start", "login" (login.exec()), "accepted",
                \* "running" (app.exec()), "exited" (sys.exit), "crashed"
    file,       \* content of COOKIE_FILE
    dlg,        \* LoginDialog: status_label, auth_cookie
    win,        \* MainWindow: auth_cookie, user_id, current_instance,
                \* status_label, fetch_thread
    orphans,    \* running FetchInstanceThreads self.fetch_thread no longer names
    fetched,    \* fetched signals emitted and queued for the GUI thread
    timers,     \* pending QTimer.singleShot(10000, update_instance)
    written,    \* history: every content save_cookie has written
    lastOk,     \* history: location of the last delivered HTTP 200 fetch
    last        \* history: the last operation and its inputs

vars == <<pc, file, dlg, win, orphans, fetched, timers, written, lastOk, last>>

NoDialog == [status_label |-> "", auth_cookie |-> PyNone]
NoWindow ==
    [auth_cookie |-> PyNone, user_id |-> PyNone, current_instance |-> PyNone,
     status_label |-> "", fetch_thread |-> "none"]

Init ==
    /\ pc = "start"
    /\ file \in InitialFiles
    /\ dlg = NoDialog
    /\ win = NoWindow
    /\ orphans = 0
    /\ fetched = <<>>
    /\ timers = 0
    /\ written = {}
    /\ lastOk = "<no fetch>"
    /\ last = [op |-> "init", in |-> <<>>]

\* ------------------------------------------------------------ MainWindow
\* update_instance that starts a fetch without looking at user_id.
update_instance_NoUserTest(w) ==
    IF w.fetch_thread = "running"
    THEN {[win |-> w, orphaned |-> 1, crash |-> FALSE],
          [win |-> w, orphaned |-> 0, crash |-> TRUE]}
    ELSE {[win |-> [w EXCEPT !.fetch_thread = "running"],
           orphaned |-> 0, crash |-> FALSE]}

\* update_instance: without a user id, "Not Ready!" and return; otherwise a
\* new FetchInstanceThread is bound to self.fetch_thread and started.  There
\* is no test for a fetch already running: rebinding self.fetch_thread drops
\* the only reference to a QThread that is still running, which either
\* aborts the process (QThread: Destroyed while thread is still running) or
\* leaves the old thread running beside the new one.
update_instance(w) ==
    IF Falsy(w.user_id)
    THEN {[win |-> [w EXCEPT !.current_instance = PyNone, !.status_label = NotReady],
           orphaned |-> 0, crash |-> FALSE]}
    ELSE IF w.fetch_thread = "running"
    THEN {[win |-> w, orphaned |-> 1, crash |-> FALSE],
          [win |-> w, orphaned |-> 0, crash |-> TRUE]}
    ELSE {[win |-> [w EXCEPT !.fetch_thread = "running"],
           orphaned |-> 0, crash |-> FALSE]}

\* MainWindow.__init__: the fields, the two labels, then update_instance().
MainWindow(cookie, uid) ==
    update_instance([auth_cookie |-> cookie, user_id |-> uid,
                     current_instance |-> PyNone, status_label |-> Fetching,
                     fetch_thread |-> "none"])

\* FetchInstanceThread.run: the string it emits.  HTTP 200 emits the
\* "location" field ("" when absent); any other status or an exception
\* emits the string "None".
FetchResults ==
    [http : {"200"}, location : Locations \cup {"", NoKey}]
        \cup [http : {"500", "exc"}, location : {NoKey}]

run(r) ==
    IF r.http = "200"
    THEN (IF r.location = NoKey THEN "" ELSE r.location)
    ELSE "None"

\* on_instance_fetched without the QTimer.singleShot of its else branch.
on_instance_fetched_NoRetry(w, loc) ==
    IF ~Falsy(loc)
    THEN [win |-> [w EXCEPT !.current_instance = loc, !.status_label = Ready],
          saved |-> {save_cookie(w.auth_cookie, w.user_id)},
          retry |-> 0]
    ELSE [win |-> [w EXCEPT !.current_instance = PyNone, !.status_label = NotReady],
          saved |-> {},
          retry |-> 0]

\* on_instance_fetched whose else branch keeps the location it showed.
on_instance_fetched_KeepsLocation(w, loc) ==
    IF ~Falsy(loc)
    THEN [win |-> [w EXCEPT !.current_instance = loc, !.status_label = Ready],
          saved |-> {save_cookie(w.auth_cookie, w.user_id)},
          retry |-> 0]
    ELSE [win |-> [w EXCEPT !.status_label = NotReady],
          saved |-> {},
          retry |-> 1]

\* on_instance_fetched: a truthy loc is shown with "Ready!" and the cookie is
\* saved; an empty loc gives "Not Ready!" and one 10 s retry timer.
on_instance_fetched(w, loc) ==
    IF ~Falsy(loc)
    THEN [win |-> [w EXCEPT !.current_instance = loc, !.status_label = Ready],
          saved |-> {save_cookie(w.auth_cookie, w.user_id)},
          retry |-> 0]
    ELSE [win |-> [w EXCEPT !.current_instance = PyNone, !.status_label = NotReady],
          saved |-> {},
          retry |-> 1]

\* The file and the history after the save_cookie call of one step.
Save(saved) ==
    /\ file' = IF saved = {} THEN file ELSE CHOOSE c \in saved : TRUE
    /\ written' = written \cup saved

Running == IF win.fetch_thread = "running" THEN 1 ELSE 0
Pending == Running + orphans + Len(fetched) + timers

\* The effect of one update_instance() call made by the event loop.
DoUpdate(how) ==
    \E o \in update_instance(win) :
        /\ win' = o.win
        /\ orphans' = orphans + o.orphaned
        /\ pc' = IF o.crash THEN "crashed" ELSE pc
        /\ last' = [op |-> "update_instance", in |-> how]
        /\ UNCHANGED <<file, dlg, fetched, written, lastOk>>

\* "Get Current Instance" clicked.
Click ==
    /\ pc = "running"
    /\ Pending < MaxPending
    /\ DoUpdate("click")
    /\ UNCHANGED timers

\* A retry timer that still fires after the window was closed.
TimerFire_AfterExit ==
    /\ pc \in {"running", "exited"}
    /\ timers > 0
    /\ timers' = timers - 1
    /\ DoUpdate("timer")

\* A retry timer fires.
TimerFire ==
    /\ pc = "running"
    /\ timers > 0
    /\ timers' = timers - 1
    /\ DoUpdate("timer")

\* A fetch thread ends its request and emits fetched(loc).
FetchRun ==
    /\ pc = "running"
    /\ \E r \in FetchResults :
        /\ fetched' = Append(fetched, [loc |-> run(r), ok |-> r.http = "200"])
        /\ last' = [op |-> "run", in |-> r]
    /\ \E th \in {"current", "orphan"} :
        IF th = "current"
        THEN /\ win.fetch_thread = "running"
             /\ win' = [win EXCEPT !.fetch_thread = "finished"]
             /\ UNCHANGED orphans
        ELSE /\ orphans > 0
             /\ orphans' = orphans - 1
             /\ UNCHANGED win
    /\ UNCHANGED <<pc, file, dlg, timers, written, lastOk>>

\* The GUI thread runs the slot for the oldest queued fetched signal.
Deliver ==
    /\ pc = "running"
    /\ fetched # <<>>
    /\ LET e == Head(fetched)
           o == on_instance_fetched(win, e.loc)
       IN /\ win' = o.win
          /\ Save(o.saved)
          /\ timers' = timers + o.retry
          /\ lastOk' = IF e.ok THEN (IF e.loc = "" THEN PyNone ELSE e.loc) ELSE lastOk
          /\ last' = [op |-> "on_instance_fetched", in |-> e]
    /\ fetched' = Tail(fetched)
    /\ UNCHANGED <<pc, dlg, orphans>>

\* The main window is closed: app.exec() returns and sys.exit ends the
\* process; nothing queued is dispatched any more.
CloseWindow ==
    /\ pc = "running"
    /\ pc' = "exited"
    /\ last' = [op |-> "close", in |-> <<>>]
    /\ UNCHANGED <<file, dlg, win, orphans, fetched, timers, written, lastOk>>

\* str.strip() on the text of path_input.
RECURSIVE lstrip(_), rstrip(_)
lstrip(s) ==
    IF Len(s) > 0 /\ SubSeq(s, 1, 1) = " "
    THEN lstrip(SubSeq(s, 2, Len(s)))
    ELSE s
rstrip(s) ==
    IF Len(s) > 0 /\ SubSeq(s, Len(s), Len(s)) = " "
    THEN rstrip(SubSeq(s, 1, Len(s) - 1))
    ELSE s
strip(s) == lstrip(rstrip(s))

\* os.path.exists: the one file on the disk.
LaunchExe == "C:/VRChat/launch.exe"
exists(path) == path = LaunchExe

\* What path_input can hold when "Launch VRChat" is clicked.
PathTexts == {" " \o LaunchExe \o "  ", "C:/gone.exe"}

\* launch_vrchat that does not test the path.
launch_vrchat_AnyPath(w, text, desktop) ==
    <<strip(text)>>
        \o (IF desktop THEN <<"--no-vr">> ELSE <<>>)
        \o (IF ~Falsy(w.current_instance) /\ w.current_instance # "None"
            THEN <<"vrchat://launch?id=" \o w.current_instance>>
            ELSE <<>>)

\* launch_vrchat that does not test current_instance against "None".
launch_vrchat_NoSentinel(w, text, desktop) ==
    IF ~exists(strip(text))
    THEN <<>>
    ELSE <<strip(text)>>
            \o (IF desktop THEN <<"--no-vr">> ELSE <<>>)
            \o (IF ~Falsy(w.current_instance)
                THEN <<"vrchat://launch?id=" \o w.current_instance>>
                ELSE <<>>)

\* launch_vrchat: the command handed to LauncherThread, <<>> when the
\* stripped path does not exist (a warning box, no thread).
launch_vrchat(w, text, desktop) ==
    LET path == strip(text)
    IN IF ~exists(path)
       THEN <<>>
       ELSE <<path>>
               \o (IF desktop THEN <<"--no-vr">> ELSE <<>>)
               \o (IF ~Falsy(w.current_instance) /\ w.current_instance # "None"
                   THEN <<"vrchat://launch?id=" \o w.current_instance>>
                   ELSE <<>>)

\* "Launch VRChat" clicked: the LauncherThread, when one is started, hands
\* cmd to subprocess.Popen, which does not wait for the game.
Launch ==
    /\ pc = "running"
    /\ \E text \in PathTexts, desktop \in BOOLEAN :
        last' = [op |-> "launch_vrchat",
                 in |-> [text |-> text, desktop |-> desktop,
                         cmd |-> launch_vrchat(win, text, desktop)]]
    /\ UNCHANGED <<pc, file, dlg, win, orphans, fetched, timers, written, lastOk>>

\* Opening the window from main(): MainWindow(cookie, uid), show(), exec().
OpenWindow(cookie, uid) ==
    \E o \in MainWindow(cookie, uid) :
        /\ win' = o.win
        /\ pc' = "running"
        /\ UNCHANGED <<orphans, fetched, timers, lastOk>>

\* ------------------------------------------------------------ LoginDialog
\* What one click on "Login" meets: the two fields; the answer to GET
\* /auth/user (an exception covers a failing request or body) with the
\* "requiresTwoFactorAuth" and "id" of its body and the auth cookie the
\* session then holds; the 2FA dialog; the answer to the verify POST.  A
\* request or dialog the handler does not get to has no answer.
NoAnswer == "<not asked>"

LoginInputs ==
    [filled : {FALSE}, res : {NoAnswer}, twofa : {FALSE}, id : {NoKey},
     cookie : {PyNone}, code : {NoAnswer}, res2 : {NoAnswer}]
    \cup
    [filled : {TRUE}, res : {"401", "exc"}, twofa : {FALSE}, id : {NoKey},
     cookie : {PyNone}, code : {NoAnswer}, res2 : {NoAnswer}]
    \cup
    [filled : {TRUE}, res : {"200"}, twofa : {FALSE}, id : UserIds \cup {NoKey},
     cookie : Tokens \cup {PyNone}, code : {NoAnswer}, res2 : {NoAnswer}]
    \cup
    [filled : {TRUE}, res : {"200"}, twofa : {TRUE}, id : UserIds \cup {NoKey},
     cookie : Tokens \cup {PyNone}, code : {"cancel", "empty"}, res2 : {NoAnswer}]
    \cup
    [filled : {TRUE}, res : {"200"}, twofa : {TRUE}, id : UserIds \cup {NoKey},
     cookie : Tokens \cup {PyNone}, code : {"entered"}, res2 : {"200", "401", "exc"}]

EnterBoth == "Enter both username and password!"
LoginFailed == "Login failed: 401"
TwoFactorRequired == "2FA code required to continue."
TwoFactorFailed == "2FA failed: 401"
NoSessionCookie == "Failed to get session cookie after login."
LoginError == "Error: exception"

LoginShows(d, text) ==
    [dlg |-> [d EXCEPT !.status_label = text], saved |-> {}, accepted |-> FALSE]

\* on_login without the "if cookie:" test before save_cookie.
on_login_SavesAnyCookie(d, in) ==
    IF ~in.filled THEN LoginShows(d, EnterBoth)
    ELSE IF in.res = "exc" THEN LoginShows(d, LoginError)
    ELSE IF in.res # "200" THEN LoginShows(d, LoginFailed)
    ELSE IF in.twofa /\ in.code # "entered" THEN LoginShows(d, TwoFactorRequired)
    ELSE IF in.twofa /\ in.res2 = "exc" THEN LoginShows(d, LoginError)
    ELSE IF in.twofa /\ in.res2 # "200" THEN LoginShows(d, TwoFactorFailed)
    ELSE [dlg |-> [d EXCEPT !.auth_cookie = in.cookie],
          saved |-> {save_cookie(in.cookie, DictGet(in.id))},
          accepted |-> TRUE]

\* on_login without the test of the verify request's status.
on_login_IgnoresVerifyStatus(d, in) ==
    IF ~in.filled THEN LoginShows(d, EnterBoth)
    ELSE IF in.res = "exc" THEN LoginShows(d, LoginError)
    ELSE IF in.res # "200" THEN LoginShows(d, LoginFailed)
    ELSE IF in.twofa /\ in.code # "entered" THEN LoginShows(d, TwoFactorRequired)
    ELSE IF in.twofa /\ in.res2 = "exc" THEN LoginShows(d, LoginError)
    ELSE IF ~Falsy(in.cookie)
    THEN [dlg |-> [d EXCEPT !.auth_cookie = in.cookie],
          saved |-> {save_cookie(in.cookie, DictGet(in.id))},
          accepted |-> TRUE]
    ELSE LoginShows(d, NoSessionCookie)

\* LoginDialog.on_login.
on_login(d, in) ==
    IF ~in.filled THEN LoginShows(d, EnterBoth)
    ELSE IF in.res = "exc" THEN LoginShows(d, LoginError)
    ELSE IF in.res # "200" THEN LoginShows(d, LoginFailed)
    ELSE IF in.twofa /\ in.code # "entered" THEN LoginShows(d, TwoFactorRequired)
    ELSE IF in.twofa /\ in.res2 = "exc" THEN LoginShows(d, LoginError)
    ELSE IF in.twofa /\ in.res2 # "200" THEN LoginShows(d, TwoFactorFailed)
    ELSE IF ~Falsy(in.cookie)
    THEN [dlg |-> [d EXCEPT !.auth_cookie = in.cookie],
          saved |-> {save_cookie(in.cookie, DictGet(in.id))},
          accepted |-> TRUE]
    ELSE LoginShows(d, NoSessionCookie)

\* A "Login" button that still answers after the dialog was accepted.
OnLogin_AfterAccepted ==
    /\ pc \in {"login", "accepted"}
    /\ \E in \in LoginInputs :
        LET o == on_login(dlg, in)
        IN /\ dlg' = o.dlg
           /\ Save(o.saved)
           /\ pc' = IF o.accepted THEN "accepted" ELSE pc
           /\ last' = [op |-> "on_login", in |-> in]
    /\ UNCHANGED <<win, orphans, fetched, timers, lastOk>>

\* The "Login" button is clicked while login.exec() runs.
OnLogin ==
    /\ pc = "login"
    /\ \E in \in LoginInputs :
        LET o == on_login(dlg, in)
        IN /\ dlg' = o.dlg
           /\ Save(o.saved)
           /\ pc' = IF o.accepted THEN "accepted" ELSE "login"
           /\ last' = [op |-> "on_login", in |-> in]
    /\ UNCHANGED <<win, orphans, fetched, timers, lastOk>>

\* The dialog is closed without a login: main() calls sys.exit().
LoginReject ==
    /\ pc = "login"
    /\ pc' = "exited"
    /\ last' = [op |-> "reject", in |-> <<>>]
    /\ UNCHANGED <<file, dlg, win, orphans, fetched, timers, written, lastOk>>

\* ------------------------------------------------------------------ main
\* test_cookie that takes any answer of the request for a success.
test_cookie_AnyAnswer(auth_cookie, probe) == ~Falsy(auth_cookie)

\* test_cookie: False without a cookie, else whether GET /auth/user gave 200.
test_cookie(auth_cookie, probe) == ~Falsy(auth_cookie) /\ probe = "200"

\* What main() meets on the network: the answer to test_cookie's request and
\* the answer to the user-id lookup with the "id" of its body.
MainInputs ==
    [probe : {"200", "401", "exc"}, lookup : {"200"}, id : UserIds \cup {NoKey}]
    \cup
    [probe : {"200", "401", "exc"}, lookup : {"401", "exc"}, id : {NoKey}]

\* main(), saved-session branch: the user id is looked up only when none was
\* saved; a 200 stores and saves the "id" of the body, an exception gives None.
main_saved_user(cookie, saved_user_id, in) ==
    IF ~Falsy(saved_user_id) THEN [user_id |-> saved_user_id, saved |-> {}]
    ELSE IF in.lookup = "200"
    THEN [user_id |-> DictGet(in.id), saved |-> {save_cookie(cookie, DictGet(in.id))}]
    ELSE IF in.lookup = "exc" THEN [user_id |-> PyNone, saved |-> {}]
    ELSE [user_id |-> saved_user_id, saved |-> {}]

\* main(), login branch after the dialog was accepted: the user id is the
\* "id" of a 200 lookup and None otherwise; the cookie is saved with it.
main_login_user(cookie, in) ==
    LET uid == IF in.lookup = "200" THEN DictGet(in.id) ELSE PyNone
    IN [user_id |-> uid, saved |-> {save_cookie(cookie, uid)}]

\* main() from load_cookie() to either the main window or the login dialog.
\* json.load raises on a malformed file and nothing catches it.
MainStart ==
    /\ pc = "start"
    /\ \E in \in MainInputs :
        /\ last' = [op |-> "main", in |-> in]
        /\ IF file = Malformed
           THEN /\ pc' = "crashed"
                /\ UNCHANGED <<file, dlg, win, orphans, fetched, timers, written, lastOk>>
           ELSE LET cookie == load_cookie(file)[1]
                    saved_user_id == load_cookie(file)[2]
                IN IF ~Falsy(cookie) /\ test_cookie(cookie, in.probe)
                   THEN LET r == main_saved_user(cookie, saved_user_id, in)
                        IN /\ Save(r.saved)
                           /\ OpenWindow(cookie, r.user_id)
                           /\ UNCHANGED dlg
                   ELSE /\ pc' = "login"
                        /\ dlg' = NoDialog
                        /\ UNCHANGED <<file, win, orphans, fetched, timers, written, lastOk>>

\* main() after login.exec() returned Accepted.
MainAfterLogin ==
    /\ pc = "accepted"
    /\ \E in \in MainInputs :
        LET r == main_login_user(dlg.auth_cookie, in)
        IN /\ last' = [op |-> "main_after_login", in |-> in]
           /\ Save(r.saved)
           /\ OpenWindow(dlg.auth_cookie, r.user_id)
           /\ UNCHANGED dlg

Next ==
    \/ MainStart
    \/ OnLogin
    \/ LoginReject
    \/ MainAfterLogin
    \/ Click
    \/ TimerFire
    \/ FetchRun
    \/ Deliver
    \/ Launch
    \/ CloseWindow

Spec == Init /\ [][Next]_vars

\* While app.exec() runs, the event loop dispatches a due timer and a queued
\* signal.  (A request has no timeout, so a thread need not ever answer.)
FairSpec ==
    /\ Spec
    /\ WF_vars(TimerFire)
    /\ WF_vars(Deliver)

\* ------------------------------------------------- the credential store alone
\* save_cookie and load_cookie applied in any order to any credential with a
\* token: the user id given to save_cookie is None, "" or an id.
Credentials == [auth : Tokens, user_id : UserIds \cup {PyNone, ""}]

StoreInit ==
    /\ pc = "store"
    /\ file \in InitialFiles
    /\ dlg = NoDialog
    /\ win = NoWindow
    /\ orphans = 0
    /\ fetched = <<>>
    /\ timers = 0
    /\ written = {}
    /\ lastOk = "<no fetch>"
    /\ last = [op |-> "init", in |-> <<>>]

StoreSave ==
    /\ pc = "store"
    /\ \E c \in Credentials :
        /\ Save({save_cookie(c.auth, c.user_id)})
        /\ last' = [op |-> "save_cookie", in |-> c]
    /\ UNCHANGED <<pc, dlg, win, orphans, fetched, timers, lastOk>>

\* load_cookie right after start or after a save_cookie; saved is the
\* credential of that save_cookie (<<>> when there was none), loaded what
\* load_cookie returns (json.load raises on a malformed file).
StoreLoad ==
    /\ pc = "store"
    /\ last.op \in {"init", "save_cookie"}
    /\ last' = [op |-> "load_cookie",
                in |-> [saved |-> IF last.op = "save_cookie"
                                  THEN <<last.in.auth, last.in.user_id>>
                                  ELSE <<>>,
                        loaded |-> IF file.state = "malformed"
                                   THEN <<"raises">>
                                   ELSE load_cookie(file)]]
    /\ UNCHANGED <<pc, file, dlg, win, orphans, fetched, timers, written, lastOk>>

StoreNext == StoreSave \/ StoreLoad

StoreSpec == StoreInit /\ [][StoreNext]_vars

\* ------------------------------------------------------------------ claims
\* Fetches whose result has not been delivered: running threads and queued
\* fetched signals.
InFlight == Running + orphans + Len(fetched)

Unreachable(e) == ~e.ok
Unknown(e) == e.ok /\ e.loc = ""
Known(e) == e.ok /\ e.loc \in Locations

\* C1: at most one fetch is in flight: an update_instance request that comes
\* while a fetch has not delivered its result is ignored (it starts no second
\* fetch, and changes nothing of the poller).
C1_RefreshCoalesced ==
    [][(InFlight >= 1 /\ last'.op = "update_instance")
        => (InFlight' = InFlight /\ win' = win /\ pc' = pc)]_vars

\* C2: when an Unreachable fetch result is processed, the status becomes
\* Unreachable ("Not Ready!", not "Ready!") and one retry is scheduled.
C2_UnreachableRetried ==
    [][(last'.op = "on_instance_fetched" /\ Unreachable(last'.in))
        => (win'.status_label = NotReady /\ timers' = timers + 1)]_vars

\* C3: whenever the status is Ready, the current location is the location of
\* the most recent successful (HTTP 200) fetch delivered.
C3_ReadyIsLastSuccess ==
    win.status_label = Ready => win.current_instance = lastOk

\* C4: once a Known location is shown with Ready, a fetch is started only by
\* an explicit refresh request, never by a timer.
C4_SteadyAfterKnown ==
    [][(win.status_label = Ready /\ win.current_instance \in Locations
            /\ last'.op = "update_instance")
        => last'.in = "click"]_vars

\* C5: after the window is closed nothing changes the presence state, the
\* credential file, the threads or the timers: a pending retry starts no
\* fetch and the result of a fetch in flight is not processed.
C5_NoMutationAfterTeardown ==
    [][pc = "exited"
        => UNCHANGED <<win, file, written, orphans, fetched, timers>>]_vars

\* C5 witness: the window was closed with a retry timer pending and a fetch
\* thread running.
C5_Witness == pc = "exited" /\ timers > 0 /\ Running + orphans > 0

\* C6: every Unknown result processed is followed, while the window runs,
\* by a fetch that the retry timer starts.
C6_UnknownRetriedForever ==
    (last.op = "on_instance_fetched" /\ Unknown(last.in))
        ~> ((last.op = "update_instance" /\ last.in = "timer") \/ pc # "running")

\* C6 witness: a timer-started fetch runs after an Unknown result left the
\* status at "Not Ready!".
C6_Witness ==
    /\ pc = "running"
    /\ last.op = "update_instance" /\ last.in = "timer"
    /\ win.status_label = NotReady /\ win.fetch_thread = "running"

\* C7: every content save_cookie has written holds a non-empty auth token.
C7_SavedTokenNonEmpty ==
    \A c \in written : c.auth \in Tokens

\* C7 witness: the poller saved the credential after main() had saved it.
C7_Witness ==
    /\ last.op = "on_instance_fetched" /\ Known(last.in)
    /\ written # {} /\ file \in written

FailureReasons ==
    {LoginFailed, TwoFactorRequired, TwoFactorFailed, NoSessionCookie, LoginError}

\* A submission that is not a full success: a non-200 answer or an exception
\* of the login request, or two-factor asked and the code missing, cancelled,
\* rejected or its request failing.
LoginNotFull(in) ==
    \/ in.res # "200"
    \/ in.twofa /\ (in.code # "entered" \/ in.res2 # "200")

\* C8: a submission that is not a full success ends with a failure reason
\* shown, the dialog open and nothing saved; an accepted login has a
\* non-empty token, which is the one saved, and with two-factor asked the
\* code was verified.
C8_LoginSavesOnlyOnSuccess ==
    [][last'.op = "on_login" =>
        /\ (last'.in.filled /\ LoginNotFull(last'.in))
            => /\ pc' = "login"
               /\ dlg'.status_label \in FailureReasons
               /\ dlg'.auth_cookie = dlg.auth_cookie
               /\ file' = file /\ written' = written
        /\ pc' = "accepted"
            => /\ dlg'.auth_cookie \in Tokens
               /\ file'.auth = dlg'.auth_cookie
               /\ ~LoginNotFull(last'.in)]_vars

\* C8 witness: a submission whose two-factor code was rejected.
C8_Witness ==
    /\ pc = "login" /\ last.op = "on_login"
    /\ last.in.filled /\ last.in.res = "200" /\ last.in.twofa
    /\ last.in.code = "entered" /\ last.in.res2 = "401"
    /\ dlg.status_label = TwoFactorFailed

\* C9 as claimed: once the dialog shows a failure, no later submission is
\* accepted or saves a credential.
C9_FailedIsTerminal ==
    [][(pc = "login" /\ dlg.status_label \in FailureReasons)
        => (pc' # "accepted" /\ file' = file)]_vars

\* C9 as amended: Succeeded and abandoned are terminal: once the dialog was
\* accepted or closed, no submission happens and its credential stays.
C9_SucceededIsTerminal ==
    [][(pc \in {"accepted", "running", "exited", "crashed"})
        => (dlg' = dlg /\ pc' \in {"running", "exited", "crashed"})]_vars

\* C9 witness: the window runs on a login accepted after a failed submission.
C9_Witness ==
    /\ pc = "running"
    /\ dlg.auth_cookie \in Tokens
    /\ dlg.status_label \in FailureReasons

\* C10: a poller started from an accepted login has a user identifier.
C10_LoginResolvesUserId ==
    last.op = "main_after_login" => ~Falsy(win.user_id)

\* C11: start-up order.  The login dialog opens only from main() having found
\* no saved cookie or test_cookie false; the window opens only on the saved
\* cookie that test_cookie accepted, or on the cookie of an accepted login,
\* which is then the one in the file; an abandoned login opens no window.
C11_StartupOrder ==
    [][/\ pc' = "login" =>
            \/ pc = "login"
            \/ /\ pc = "start" /\ file.state # "malformed"
               /\ (Falsy(load_cookie(file)[1]) \/ last'.in.probe # "200")
       /\ (pc' = "running" /\ pc # "running") =>
            \/ /\ pc = "start" /\ file.state = "json"
               /\ win'.auth_cookie = file.auth /\ file.auth \in Tokens
               /\ last'.in.probe = "200"
            \/ /\ pc = "accepted"
               /\ win'.auth_cookie = dlg.auth_cookie /\ dlg.auth_cookie \in Tokens
               /\ file'.state = "json" /\ file'.auth = dlg.auth_cookie
       /\ pc' = "accepted" => (pc = "login" /\ last'.op = "on_login")
       /\ last'.op = "reject" => (pc' = "exited" /\ win' = NoWindow)
       /\ pc = "exited" => pc' = "exited"]_vars

\* C11 witness: the window runs on the cookie of an accepted login, which is
\* the one in the file.
C11_Witness ==
    /\ pc = "running" /\ last.op = "main_after_login"
    /\ win.auth_cookie = dlg.auth_cookie /\ file.auth = win.auth_cookie

\* C12: whatever the credential file is (missing, malformed, without an
\* "auth" key), main() gets "no saved session" and opens the login dialog.
C12_LoadNeverRaises ==
    [][(pc = "start" /\ (file.state # "json" \/ file.auth = NoKey))
        => pc' = "login"]_vars

\* C13: load_cookie after save_cookie(c) returns c in both fields, for a
\* user id that is None, "" or an id, and the file holds c alone, whatever it
\* held before.
C13_RoundTrip ==
    (last.op = "load_cookie" /\ last.in.saved # <<>>)
        => /\ last.in.loaded = last.in.saved
           /\ file.state = "json" /\ file.auth = last.in.saved[1]
           /\ DictGet(file.user_id) = last.in.saved[2]

\* C14: for an existing executable the command launch_vrchat builds is the
\* stripped path, then "--no-vr" iff the desktop box is checked, then
\* "vrchat://launch?id=<location>" iff current_instance is a location (not
\* None, not empty, not the string "None"), in that order and nothing else.
C14_LaunchCommand ==
    (last.op = "launch_vrchat" /\ exists(strip(last.in.text)))
        => LET cmd == last.in.cmd
               loc == win.current_instance
               present == loc \notin {PyNone, "", "None"}
               uri == "vrchat://launch?id=" \o loc
           IN /\ Len(cmd) = 1 + (IF last.in.desktop THEN 1 ELSE 0)
                              + (IF present THEN 1 ELSE 0)
              /\ cmd[1] = strip(last.in.text)
              /\ last.in.desktop => cmd[2] = "--no-vr"
              /\ present => cmd[Len(cmd)] = uri
              /\ (last.in.desktop /\ ~present) => cmd = <<LaunchExe, "--no-vr">>
              /\ (~last.in.desktop /\ loc = "wrld_1")
                    => cmd = <<LaunchExe, "vrchat://launch?id=wrld_1">>

\* C14 witness: a desktop launch into a fetched location.
C14_Witness ==
    /\ last.op = "launch_vrchat"
    /\ last.in.cmd = <<LaunchExe, "--no-vr", "vrchat://launch?id=wrld_2">>

\* C15: a launch asked for a path that does not exist builds no command,
\* starts nothing and changes neither the window's state nor the file.
C15_MissingExe ==
    [][(last'.op = "launch_vrchat" /\ ~exists(strip(last'.in.text)))
        => /\ last'.in.cmd = <<>>
           /\ UNCHANGED <<pc, file, dlg, win, orphans, fetched, timers, written>>]_vars

\* C15 witness: such a launch was refused while a location was known.
C15_Witness ==
    /\ last.op = "launch_vrchat" /\ ~exists(strip(last.in.text))
    /\ last.in.cmd = <<>> /\ win.current_instance \in Locations

\* C16: processing an Unreachable fetch result leaves the current location as
\* it was, and a launch built afterwards gets the argument it would have got
\* before.
C16_UnreachableKeepsLocation ==
    [][(last'.op = "on_instance_fetched" /\ Unreachable(last'.in))
        => /\ win'.current_instance = win.current_instance
           /\ launch_vrchat(win', LaunchExe, FALSE)
                = launch_vrchat(win, LaunchExe, FALSE)]_vars

\* C17 as claimed: processing an Unknown fetch result sets the current
\* location to None and the status to Ready, and schedules one retry.
C17_UnknownIsReady ==
    [][(last'.op = "on_instance_fetched" /\ Unknown(last'.in))
        => /\ win'.current_instance = PyNone
           /\ win'.status_label = Ready
           /\ timers' = timers + 1]_vars

\* C17 as amended: processing an Unknown fetch result sets the current
\* location to None and the status to "Not Ready!", and schedules one retry.
C17_UnknownIsNotReady ==
    [][(last'.op = "on_instance_fetched" /\ Unknown(last'.in))
        => /\ win'.current_instance = PyNone
           /\ win'.status_label = NotReady
           /\ timers' = timers + 1]_vars

\* C17 witness: an Unknown result, processed after a location had been
\* fetched and saved, left "Not Ready!", no location and the one timer.
C17_Witness ==
    /\ last.op = "on_instance_fetched" /\ Unknown(last.in)
    /\ lastOk = PyNone /\ written # {}
    /\ win.current_instance = PyNone /\ win.status_label = NotReady
    /\ timers = 1

\* C18: a window without a user id shows no location and "Not Ready!" after
\* every update_instance (the one of its construction and every refresh),
\* has no fetch in flight and no retry timer pending.
C18_NoUserNoFetch ==
    (win # NoWindow /\ Falsy(win.user_id))
        => /\ win.current_instance = PyNone
           /\ win.status_label = NotReady
           /\ win.fetch_thread = "none"
           /\ InFlight = 0
           /\ timers = 0

\* C18 witness: a refresh was asked of a running window without a user id.
C18_Witness ==
    /\ pc = "running" /\ Falsy(win.user_id)
    /\ last.op = "update_instance" /\ last.in = "click"

\* C19: at most one retry timer is pending at any time.
C19_OneRetryTimer == timers <= 1

\* C20: whenever the main window runs, the file holds the auth_cookie and the
\* user_id of the window (no "user_id" key for None), by either way of
\* starting; and no step of the running window (refresh, timer, fetch result,
\* launch) changes the window's auth_cookie or user_id or the file.
C20_FileIsSession ==
    [][/\ pc' = "running"
            => /\ file'.state = "json"
               /\ load_cookie(file') = <<win'.auth_cookie, win'.user_id>>
       /\ pc = "running"
            => /\ win'.auth_cookie = win.auth_cookie
               /\ win'.user_id = win.user_id
               /\ file' = file]_vars

\* C20 witness: after a login, a fetched location (saved by the poller) and a
\* launch, the file still holds the window's credential with its user id.
C20_Witness ==
    /\ pc = "running" /\ last.op = "launch_vrchat"
    /\ win.auth_cookie = dlg.auth_cookie /\ win.user_id \in UserIds
    /\ win.current_instance \in Locations
    /\ load_cookie(file) = <<win.auth_cookie, win.user_id>>

====
